---- MODULE Spec2Model ----
(***************************************************************************)
(* Lazy LaTeX: marker detection, per-line conversion, the document         *)
(* convergence loop and the save hooks of the extension                    *)
(* (src/unnamed/part_002).                                                 *)
(*                                                                         *)
(* Text is a sequence of one-character strings.  Offsets are the 0-based   *)
(* offsets of the source (end exclusive); SubSeq(line, start + 1, end) is  *)
(* line.slice(start, end).                                                 *)
(***************************************************************************)
EXTENDS Integers, Sequences, FiniteSets, TLC

(***************************************************************************)
(* Text helpers                                                            *)
(***************************************************************************)

\* /\s/.test(c)
IsSpace(c) == c \in {" ", "\n"}

RECURSIVE TrimLeft(_)
TrimLeft(s) ==
  IF s = <<>> THEN <<>>
  ELSE IF IsSpace(Head(s)) THEN TrimLeft(Tail(s)) ELSE s

RECURSIVE TrimRight(_)
TrimRight(s) ==
  IF s = <<>> THEN <<>>
  ELSE IF IsSpace(s[Len(s)]) THEN TrimRight(SubSeq(s, 1, Len(s) - 1)) ELSE s

\* String.prototype.trim
Trim(s) == TrimRight(TrimLeft(s))

\* line.slice(from, to) with 0-based offsets, end exclusive
Slice(line, from, to) == SubSeq(line, from + 1, to)

\* while (i < len && /\s/.test(line[i])) i++   (0-based i)
RECURSIVE SkipSpaces(_, _)
SkipSpaces(line, i) ==
  IF i < Len(line) /\ IsSpace(line[i + 1]) THEN SkipSpaces(line, i + 1) ELSE i

\* the characters occurring in a text
Chars(s) == {s[k] : k \in 1..Len(s)}

\* the lines of a text that contains newline characters
RECURSIVE SplitLines(_)
SplitLines(s) ==
  IF \A k \in 1..Len(s) : s[k] # "\n" THEN <<s>>
  ELSE LET k == CHOOSE k \in 1..Len(s) :
                  s[k] = "\n" /\ \A j \in 1..(k - 1) : s[j] # "\n"
       IN <<SubSeq(s, 1, k - 1)>> \o SplitLines(SubSeq(s, k + 1, Len(s)))

(***************************************************************************)
(* Marker Scanner: findWrappersInLine                                      *)
(***************************************************************************)

\* length of the maximal run of the marker character starting at 1-based i
RECURSIVE RunLength(_, _)
RunLength(line, i) ==
  IF i > Len(line) \/ line[i] # ";" THEN 0 ELSE 1 + RunLength(line, i + 1)

\* run length -> kind of region
KindOf(n) == IF n = 2 THEN "inline" ELSE IF n = 3 THEN "display" ELSE "anything"

\* 1-based position of the next run of exactly n marker characters at or
\* after j, 0 when there is none on the line
RECURSIVE FindCloser(_, _, _)
FindCloser(line, j, n) ==
  IF j > Len(line) THEN 0
  ELSE IF line[j] = ";"
       THEN LET r == RunLength(line, j)
            IN IF r = n THEN j ELSE FindCloser(line, j + r, n)
       ELSE FindCloser(line, j + 1, n)

RECURSIVE ScanFrom(_, _)
ScanFrom(line, i) ==
  IF i > Len(line) THEN <<>>
  ELSE IF line[i] # ";" THEN ScanFrom(line, i + 1)
  ELSE LET r == RunLength(line, i)
       IN IF r \in {2, 3, 4}
          THEN LET c == FindCloser(line, i + r, r)
               IN IF c = 0 THEN ScanFrom(line, i + r)
                  ELSE <<[type  |-> KindOf(r),
                          start |-> i - 1,
                          end   |-> c + r - 1,
                          inner |-> SubSeq(line, i + r, c - 1)]>>
                       \o ScanFrom(line, c + r)
          ELSE ScanFrom(line, i + r)

findWrappersInLine(lineText) == ScanFrom(lineText, 1)

(***************************************************************************)
(* Output delimiters                                                       *)
(***************************************************************************)

getOutputDelimiters(lang, inlineStyle, displayStyle) ==
  IF lang = "markdown"
  THEN [inline  |-> [open |-> <<"$">>, close |-> <<"$">>],
        display |-> [open |-> <<"$", "$">>, close |-> <<"$", "$">>]]
  ELSE [inline  |-> IF inlineStyle = "paren"
                    THEN [open |-> <<"\\", "(">>, close |-> <<"\\", ")">>]
                    ELSE [open |-> <<"$">>, close |-> <<"$">>],
        display |-> IF displayStyle = "dollars"
                    THEN [open |-> <<"$", "$">>, close |-> <<"$", "$">>]
                    ELSE [open |-> <<"\\", "[">>, close |-> <<"\\", "]">>]]

(***************************************************************************)
(* Replacement Builder: the synchronous parts of processLineForWrappers    *)
(***************************************************************************)


IsMath(w) == w.type = "inline" \/ w.type = "display"
IsAnything(w) == w.type = "anything"

mathWrappersOf(wrappers) == SelectSeq(wrappers, IsMath)
anythingWrappersOf(wrappers) == SelectSeq(wrappers, IsAnything)

\* latexList[idx] || ''   (idx is the 1-based index into mathWrappers)
ResultForShifted(latexList, idx) ==
  IF idx + 1 <= Len(latexList) THEN latexList[idx + 1] ELSE <<>>

ResultFor(latexList, idx) ==
  IF idx <= Len(latexList) THEN latexList[idx] ELSE <<>>

\* "space + single semicolon after wrapper": the deletion of the whitespace
\* between the region's end and a single semicolon, as a sequence of 0 or 1
\* operations
spaceBeforeSemicolonReplacement(line, w) ==
  LET i == SkipSpaces(line, w.end)
  IN IF /\ i < Len(line)
        /\ line[i + 1] = ";"
        /\ (i + 1 >= Len(line) \/ line[i + 2] # ";")
        /\ i > w.end
     THEN <<[start |-> w.end, end |-> i, text |-> <<>>]>>
     ELSE <<>>

punctChars == {".", ",", ";", ":", "!", "?"}

\* a slip: punctuation is absorbed after a region of any kind
PunctAtAnyKind(line, w) ==
  LET i == SkipSpaces(line, w.end)
  IN IF i < Len(line) /\ line[i + 1] \in punctChars THEN i ELSE -1

\* 0-based offset of the punctuation character absorbed by a display
\* region, -1 when there is none
PunctAt(line, w) ==
  LET i == SkipSpaces(line, w.end)
  IN IF w.type = "display" /\ i < Len(line) /\ line[i + 1] \in punctChars
     THEN i ELSE -1

\* the deletion of the absorbed punctuation and the whitespace after it
extraReplacement(line, w) ==
  LET i == PunctAt(line, w)
  IN IF i >= 0
     THEN <<[start |-> i, end |-> SkipSpaces(line, i + 1), text |-> <<>>]>>
     ELSE <<>>

\* the generated text after punctuation absorption
LatexWithPunct(line, w, latex) ==
  LET i == PunctAt(line, w)
  IN IF i >= 0 THEN latex \o <<" ", line[i + 1]>> ELSE latex

\* a slip: the prefix of the region is not trimmed before it is measured
wrappedTextUntrimmed(line, w, latex, outputDelims) ==
  IF w.type = "inline"
  THEN outputDelims.inline.open \o latex \o outputDelims.inline.close
  ELSE LET displayBlock == outputDelims.display.open \o <<"\n">> \o latex
                           \o <<"\n">> \o outputDelims.display.close \o <<"\n">>
       IN IF Len(Slice(line, 0, w.start)) > 0
          THEN <<"\n">> \o displayBlock
          ELSE displayBlock

wrappedText(line, w, latex, outputDelims) ==
  IF w.type = "inline"
  THEN outputDelims.inline.open \o latex \o outputDelims.inline.close
  ELSE LET displayBlock == outputDelims.display.open \o <<"\n">> \o latex
                           \o <<"\n">> \o outputDelims.display.close \o <<"\n">>
       IN IF Len(Trim(Slice(line, 0, w.start))) > 0
          THEN <<"\n">> \o displayBlock
          ELSE displayBlock

\* the body of the loop over mathWrappers for one idx
MathReplacementsFor(line, w, raw, outputDelims) ==
  LET latex == Trim(raw)
  IN IF latex = <<>> THEN <<>>
     ELSE <<[start |-> w.start, end |-> w.end,
             text  |-> wrappedText(line, w, LatexWithPunct(line, w, latex),
                                   outputDelims)]>>
          \o spaceBeforeSemicolonReplacement(line, w)
          \o extraReplacement(line, w)

\* for (let idx = 0; idx < mathWrappers.length; idx++) { ... }
RECURSIVE BuildMathFrom(_, _, _, _, _)
BuildMathFrom(line, mathWrappers, latexList, outputDelims, idx) ==
  IF idx > Len(mathWrappers) THEN <<>>
  ELSE MathReplacementsFor(line, mathWrappers[idx], ResultFor(latexList, idx),
                           outputDelims)
       \o BuildMathFrom(line, mathWrappers, latexList, outputDelims, idx + 1)

BuildMath(line, mathWrappers, latexList, outputDelims) ==
  BuildMathFrom(line, mathWrappers, latexList, outputDelims, 1)

\* the tail of the loop over anythingWrappers for one generated text
AnythingReplacementsFor(line, w, generated) ==
  LET text == Trim(generated)
  IN IF text = <<>> THEN <<>>
     ELSE <<[start |-> w.start, end |-> w.end, text |-> text]>>
          \o spaceBeforeSemicolonReplacement(line, w)

(***************************************************************************)
(* Line Edit Applier: the callback handed to editor.edit                   *)
(***************************************************************************)

\* replacements.sort((a, b) => b.start - a.start): stable, descending start
RECURSIVE InsertDesc(_, _)
InsertDesc(sorted, r) ==
  IF sorted = <<>> THEN <<r>>
  ELSE IF Head(sorted).start >= r.start
       THEN <<Head(sorted)>> \o InsertDesc(Tail(sorted), r)
       ELSE <<r>> \o sorted

\* a slip: the operations are applied in the order they were built
SortDescForgotten(ops) == ops

RECURSIVE SortDesc(_)
SortDesc(ops) ==
  IF ops = <<>> THEN <<>>
  ELSE InsertDesc(SortDesc(SubSeq(ops, 1, Len(ops) - 1)), ops[Len(ops)])

Min(a, b) == IF a < b THEN a ELSE b

\* editBuilder.replace(range, r.text) on the text of the line; the host
\* clamps a position to the end of the line
ReplaceRange(text, r) ==
  LET s == Min(r.start, Len(text))
      e == Min(r.end, Len(text))
  IN Slice(text, 0, s) \o r.text \o Slice(text, e, Len(text))

\* for (const r of sorted) editBuilder.replace(...)
RECURSIVE ApplySorted(_, _)
ApplySorted(text, sorted) ==
  IF sorted = <<>> THEN text
  ELSE ApplySorted(ReplaceRange(text, Head(sorted)), Tail(sorted))

\* two operations of the edit share a character of the line: the host
\* refuses such an edit
Overlapping(ops) ==
  \E i, j \in 1..Len(ops) :
    i # j /\ ops[i].start < ops[j].end /\ ops[j].start < ops[i].end

\* the comment line that keeps the original input, with its newline; the
\* fixed words of the comment are written as single tokens
commentText(lang, originalLineText) ==
  IF lang = "markdown"
  THEN <<"<!--", " ", "[lazy-latex input]", " ">> \o originalLineText
       \o <<" ", "-->", "\n">>
  ELSE <<"%", " ", "[lazy-latex input]", " ">> \o originalLineText \o <<"\n">>

\* the text that replaces line lineNumber of the document
EditedLineText(lineText, originalLineText, replacements, keepOriginalComment, lang) ==
  (IF keepOriginalComment /\ Len(Trim(originalLineText)) > 0
   THEN commentText(lang, originalLineText) ELSE <<>>)
  \o ApplySorted(lineText, SortDesc(replacements))

\* the document after the edit of line lineNumber (0-based)
ApplyEdit(document, lineNumber, originalLineText, replacements, keepOriginalComment, lang) ==
  SubSeq(document, 1, lineNumber)
  \o SplitLines(EditedLineText(document[lineNumber + 1], originalLineText,
                               replacements, keepOriginalComment, lang))
  \o SubSeq(document, lineNumber + 2, Len(document))

(***************************************************************************)
(* Bounds and inputs                                                       *)
(***************************************************************************)

\* user actions in one run: saves and switches of the active editor
MaxUserActions == 2
\* uses of the convert-current-line command in one run
MaxCommands == 1
\* processLineForWrappers invocations that can be in progress together
MaxInv == 2
\* Replacement Operations handed to the Line Edit Applier in its own runs
MaxOps == 2

Slots == 1..MaxInv

M2 == <<";", ";">>
M3 == <<";", ";", ";">>
M4 == <<";", ";", ";", ";">>

\* the documents the save-driven runs start from
DocPlain == << <<"a", " ", ";", "b">> >>
DocInline == << <<"l", " ">> \o M2 \o <<"a">> \o M2 >>
DocTwoLines ==
  << M2 \o <<"a">> \o M2, <<"t">>, M3 \o <<"b">> \o M3 \o <<" ", ".">> >>
DocFree == << <<"t">>, M4 \o <<"i">> \o M4 \o <<" ", ";">> >>
Docs == {DocPlain, DocInline, DocTwoLines, DocFree}

\* the documents the runs of the convert-current-line command start from:
\* math and free-text regions interleaved on one line
DocMixed ==
  << M4 \o <<"i">> \o M4 \o <<" ">> \o M2 \o <<"a">> \o M2 \o <<" ">>
     \o M4 \o <<"j">> \o M4 \o <<" ">> \o M3 \o <<"b">> \o M3 >>
DocMathFirst ==
  << <<"t">>,
     M2 \o <<"a">> \o M2 \o <<" ">> \o M4 \o <<" ">> \o M4 \o <<" ">>
     \o M4 \o <<"i">> \o M4 \o <<" ">> \o M2 \o <<"b">> \o M2 \o <<" ">>
     \o M4 \o <<"j">> \o M4 >>
LineDocs == {DocMixed, DocMathFirst, DocFree, DocPlain}

\* the lines the runs of the Replacement Builder start from: one region,
\* what precedes it and what follows it
BuildPrefixes == {<<>>, <<" ">>, <<"t", " ">>}
BuildRegions == {m \o <<"a">> \o m : m \in {M2, M3, M4}}
BuildGaps == {<<>>, <<" ">>}
BuildFollowers ==
  {<<>>, <<".">>, <<";">>, <<";", " ", "z">>, <<",", " ", "z">>, <<"z">>,
   M2 \o <<"b">> \o M2, M3 \o <<"b">> \o M3, M4 \o <<"j">> \o M4}
LineTwoDisplays ==
  <<" ">> \o M3 \o <<"a">> \o M3 \o <<" ", "t", " ">> \o M3 \o <<"b">> \o M3
  \o <<" ", ".">>
LineInlineDisplay ==
  M2 \o <<"a">> \o M2 \o <<" ", ",", " ">> \o M3 \o <<"b">> \o M3
  \o <<" ", ".", " ", "z">>
BuildLines ==
  {p \o r \o g \o f : p \in BuildPrefixes, r \in BuildRegions,
                       g \in BuildGaps, f \in BuildFollowers}
  \cup {LineTwoDisplays, LineInlineDisplay}
BuildDocs == {<<l>> : l \in BuildLines}

\* the documents the runs of the editor events start from
DocSelect == << M2 \o <<"a">> \o M2 \o <<" ", "s">> >>
DocDisplay == << <<"t", " ">> \o M3 \o <<"b">> \o M3, M2 \o <<"a">> \o M2 >>
DocInstruct == << M4 \o <<"i">> \o M4 \o <<" ", "s">> >>
EditorDocs == {DocInline, DocSelect, DocDisplay, DocInstruct}

\* the settings the runs start from
Configs ==
  {[convertOnSave |-> m, keepOriginalComment |-> FALSE, lang |-> "latex",
    inlineStyle |-> "dollar", displayStyle |-> "brackets",
    autoReplace |-> TRUE] :
      m \in {"none", "convert-save", "save-convert-save"}}
  \cup
  {[convertOnSave |-> "save-convert-save", keepOriginalComment |-> TRUE,
    lang |-> "markdown", inlineStyle |-> "dollar", displayStyle |-> "brackets",
    autoReplace |-> TRUE],
   [convertOnSave |-> "convert-save", keepOriginalComment |-> TRUE,
    lang |-> "latex", inlineStyle |-> "paren", displayStyle |-> "dollars",
    autoReplace |-> TRUE],
   [convertOnSave |-> "convert-save", keepOriginalComment |-> FALSE,
    lang |-> "plaintext", inlineStyle |-> "dollar", displayStyle |-> "brackets",
    autoReplace |-> TRUE]}

\* the texts a backend request can return
TextX == <<"x">>
TextY == <<"y">>
TextBlank == <<" ">>
TextMarker == M2 \o <<"m">> \o M2
TextTwoLines == <<"x", "\n", "y">>

\* the backends of the runs: "good" always answers with text, "marker"
\* always answers with a text that holds a 2-run region, "failing" always
\* fails, "flaky" fails or answers, "blank" answers with blank text or with
\* a list that is one short, "any" does any of these but the marker
Backends == {"good", "marker", "failing", "flaky", "blank"}

BackendTexts(b) ==
  CASE b = "good"    -> {TextX}
    [] b = "marker"  -> {TextMarker}
    [] b = "failing" -> {}
    [] b = "flaky"   -> {TextX}
    [] b = "blank"   -> {TextBlank, <<>>}
    [] b = "any"     -> {TextX, TextY, TextBlank}

BackendFails(b) == b \in {"failing", "flaky", "any"}
BackendShort(b) == b \in {"blank", "any"}

\* the save-driven runs: settings, backend and document
Runs ==
  {r \in [cfg : Configs, backend : Backends, doc : Docs] :
     /\ r.cfg.keepOriginalComment =>
          r.backend \in {"good", "failing"} /\ r.doc = DocInline
     /\ r.backend = "marker" => r.doc \in {DocInline, DocFree}}

\* the outcomes of a batch request for n math regions
BatchOutcomes(b, n) ==
  (IF BackendFails(b) THEN {[ok |-> FALSE, list |-> <<>>]} ELSE {})
  \cup {[ok |-> TRUE, list |-> l] : l \in [1..n -> BackendTexts(b)]}
  \cup (IF BackendShort(b)
        THEN {[ok |-> TRUE, list |-> l] : l \in [1..(n - 1) -> BackendTexts(b)]}
        ELSE {})

\* the outcomes of a free-text request
AnythingOutcomes(b) ==
  (IF BackendFails(b) THEN {[ok |-> FALSE, text |-> <<>>]} ELSE {})
  \cup {[ok |-> TRUE, text |-> t] : t \in BackendTexts(b)}

(***************************************************************************)
(* State                                                                   *)
(***************************************************************************)

VARIABLES
  cfg,                      \* the settings of the 'lazy-latex' section
  backend,                  \* how the text-generation backend answers
  doc,                      \* the lines of the document being converted
  activeDoc,                \* "D": its editor is the active one; "O": another
  isApplyingLazyLatexEdit,  \* guard: our own edit is being applied
  isProcessingSave,         \* guard: a save handler's conversion is running
  inv,                      \* the processLineForWrappers invocations
  loop,                     \* the processAllWrappersInDocument invocation
  save,                     \* the host's save of the document
  didSave,                  \* position of the onDidSaveTextDocument handler
  waitUntilPromises,        \* promises handed to event.waitUntil
  obs,                      \* what the current loop invocation did so far
  budget,                   \* user actions taken
  mathToLatex               \* the lazy-latex.mathToLatex command invocation

vars == <<cfg, backend, doc, activeDoc, isApplyingLazyLatexEdit, isProcessingSave, inv,
          loop, save, didSave, waitUntilPromises, obs, budget, mathToLatex>>

FreeInv ==
  [pc |-> "free", caller |-> "none", lineNumber |-> 0, wrappers |-> <<>>,
   originalLineText |-> <<>>, replacements |-> <<>>, k |-> 0,
   status |-> "none", batch |-> [st |-> "none", list |-> <<>>],
   generated |-> <<>>, requests |-> <<>>, edit |-> "none"]

IdleLoop ==
  [pc |-> "idle", owner |-> "none", pass |-> 0, foundWrappers |-> FALSE,
   lineNumber |-> 0, lineCount |-> 0, anyConversions |-> FALSE, slot |-> 0]

\* no mathToLatex command is running
IdleCommand ==
  [pc |-> "idle", line |-> 0, start |-> 0, end |-> 0, latex |-> <<>>,
   edit |-> "none"]

NoObs ==
  [edited |-> FALSE, resaves |-> 0, processed |-> {}, failed |-> {},
   retried |-> {}, startRegions |-> FALSE, startMath |-> FALSE,
   threw |-> FALSE, loops |-> 0]

LangOk == cfg.lang = "latex" \/ cfg.lang = "markdown"

outputDelims == getOutputDelimiters(cfg.lang, cfg.inlineStyle, cfg.displayStyle)

HasRegions(document) ==
  \E i \in 1..Len(document) : findWrappersInLine(document[i]) # <<>>

HasMathRegions(document) ==
  \E i \in 1..Len(document) :
    mathWrappersOf(findWrappersInLine(document[i])) # <<>>

(***************************************************************************)
(* processLineForWrappers                                                  *)
(***************************************************************************)

\* if (!replacements.length) return;  otherwise the edit is issued
Finish(rec) ==
  IF rec.replacements = <<>>
  THEN [rec EXCEPT !.pc = "returned"]
  ELSE [rec EXCEPT !.pc = "edit", !.edit = "issued"]

\* for (const w of anythingWrappers), from the k-th one on, up to the next
\* backend request
RECURSIVE NextAnything(_, _)
NextAnything(rec, k) ==
  LET aw == anythingWrappersOf(rec.wrappers)
  IN IF k > Len(aw) THEN Finish(rec)
     ELSE IF Trim(aw[k].inner) = <<>>
          THEN NextAnything([rec EXCEPT !.generated[k].st = "skipped"], k + 1)
          ELSE [rec EXCEPT !.pc = "anything", !.k = k,
                           !.generated[k].st = "requested",
                           !.requests = Append(@, k)]

\* a slip: the entry does not return on an empty list of regions
EnterLineInNoRegionCheck(document, caller, lineNumber, wrappers) ==
  IF activeDoc # "D"
  THEN [FreeInv EXCEPT !.pc = "returned", !.caller = caller,
                       !.lineNumber = lineNumber, !.wrappers = wrappers]
  ELSE LET rec ==
             [FreeInv EXCEPT
                !.pc = "entered", !.caller = caller,
                !.lineNumber = lineNumber, !.wrappers = wrappers,
                !.status = "live",
                !.originalLineText =
                   IF lineNumber < Len(document) THEN document[lineNumber + 1]
                   ELSE <<>>,
                !.generated =
                   [k \in 1..Len(anythingWrappersOf(wrappers)) |->
                      [st |-> "pending", text |-> <<>>]]]
       IN IF mathWrappersOf(wrappers) # <<>>
          THEN [rec EXCEPT !.pc = "batch", !.batch.st = "requested",
                           !.requests = <<0>>]
          ELSE NextAnything(rec, 1)

\* entry of processLineForWrappers up to its first await, document being
\* the text of the document at the call
EnterLineIn(document, caller, lineNumber, wrappers) ==
  IF activeDoc # "D" \/ wrappers = <<>>
  THEN [FreeInv EXCEPT !.pc = "returned", !.caller = caller,
                       !.lineNumber = lineNumber, !.wrappers = wrappers]
  ELSE LET rec ==
             [FreeInv EXCEPT
                !.pc = "entered", !.caller = caller,
                !.lineNumber = lineNumber, !.wrappers = wrappers,
                !.status = "live",
                !.originalLineText =
                   IF lineNumber < Len(document) THEN document[lineNumber + 1]
                   ELSE <<>>,
                !.generated =
                   [k \in 1..Len(anythingWrappersOf(wrappers)) |->
                      [st |-> "pending", text |-> <<>>]]]
       IN IF mathWrappersOf(wrappers) # <<>>
          THEN [rec EXCEPT !.pc = "batch", !.batch.st = "requested",
                           !.requests = <<0>>]
          ELSE NextAnything(rec, 1)

\* processLineForWrappers called on the document as it is
EnterLine(caller, lineNumber, wrappers) ==
  EnterLineIn(doc, caller, lineNumber, wrappers)

\* generateLatexForBatch resolved with latexList
AfterBatchResult(rec, latexList) ==
  NextAnything(
    [rec EXCEPT !.batch = [st |-> "ok", list |-> latexList],
                !.replacements =
                   BuildMath(rec.originalLineText, mathWrappersOf(rec.wrappers),
                             latexList, outputDelims)],
    1)

\* a slip: the catch block gives the whole line up
AfterBatchErrorAbort(rec) ==
  [rec EXCEPT !.batch.st = "failed", !.status = "disposed", !.pc = "returned"]

\* generateLatexForBatch rejected: the catch block sets latexList = []
AfterBatchError(rec) ==
  NextAnything(
    [rec EXCEPT !.batch.st = "failed", !.status = "disposed",
                !.replacements =
                   BuildMath(rec.originalLineText, mathWrappersOf(rec.wrappers),
                             <<>>, outputDelims)],
    1)

\* generateAnythingFromInstruction resolved with generated
AfterAnythingResult(rec, generated) ==
  NextAnything(
    [rec EXCEPT !.generated[rec.k] = [st |-> "ok", text |-> generated],
                !.replacements =
                   @ \o AnythingReplacementsFor(
                          rec.originalLineText,
                          anythingWrappersOf(rec.wrappers)[rec.k], generated)],
    rec.k + 1)

\* a slip: the catch block leaves the loop over the free-text regions
AfterAnythingErrorBreak(rec) ==
  Finish([rec EXCEPT !.generated[rec.k].st = "failed", !.status = "disposed"])

\* generateAnythingFromInstruction rejected: the catch block continues
AfterAnythingError(rec) ==
  NextAnything(
    [rec EXCEPT !.generated[rec.k].st = "failed", !.status = "disposed"],
    rec.k + 1)

(***************************************************************************)
(* Observations of one processAllWrappersInDocument invocation             *)
(***************************************************************************)

\* the backend request an invocation is waiting for: line number, line text
\* and 0 for the math batch, k for the k-th free-text region
RequestKey(rec) ==
  <<rec.lineNumber, rec.originalLineText, IF rec.pc = "batch" THEN 0 ELSE rec.k>>

Requesting(rec) == rec.pc \in {"batch", "anything"}

\* rec issued a request: note a request that repeats a failed one
ObsIssued(o, rec) ==
  IF rec.caller = "loop" /\ Requesting(rec) /\ RequestKey(rec) \in o.failed
  THEN [o EXCEPT !.retried = @ \cup {RequestKey(rec)}]
  ELSE o

\* the request of rec came back
ObsOutcome(o, rec, ok) ==
  IF rec.caller = "loop" /\ ~ok
  THEN [o EXCEPT !.failed = @ \cup {RequestKey(rec)}]
  ELSE o

(***************************************************************************)
(* The steps of processLineForWrappers after a suspension                  *)
(***************************************************************************)

\* synchronous code is running: no event is delivered before it suspends
Busy ==
  \/ loop.pc \in {"while", "for", "return"}
  \/ didSave = "finally"
  \/ \E s \in Slots : inv[s].pc \in {"returned", "threw"}

\* the backend answers the batch request of invocation s
BatchReturn(s) ==
  /\ ~Busy
  /\ inv[s].pc = "batch"
  /\ \E out \in BatchOutcomes(backend, Len(mathWrappersOf(inv[s].wrappers))) :
       LET rec == IF out.ok THEN AfterBatchResult(inv[s], out.list)
                            ELSE AfterBatchError(inv[s])
       IN /\ inv' = [inv EXCEPT ![s] = rec]
          /\ isApplyingLazyLatexEdit' = (rec.pc = "edit" \/ isApplyingLazyLatexEdit)
          /\ obs' = ObsIssued(ObsOutcome(obs, inv[s], out.ok), rec)
  /\ UNCHANGED <<cfg, backend, doc, activeDoc, isProcessingSave, loop, save, didSave,
                 waitUntilPromises, budget>>
  /\ UNCHANGED mathToLatex

\* the backend answers the free-text request of invocation s
AnythingReturn(s) ==
  /\ ~Busy
  /\ inv[s].pc = "anything"
  /\ \E out \in AnythingOutcomes(backend) :
       LET rec == IF out.ok THEN AfterAnythingResult(inv[s], out.text)
                            ELSE AfterAnythingError(inv[s])
       IN /\ inv' = [inv EXCEPT ![s] = rec]
          /\ isApplyingLazyLatexEdit' = (rec.pc = "edit" \/ isApplyingLazyLatexEdit)
          /\ obs' = ObsIssued(ObsOutcome(obs, inv[s], out.ok), rec)
  /\ UNCHANGED <<cfg, backend, doc, activeDoc, isProcessingSave, loop, save, didSave,
                 waitUntilPromises, budget>>
  /\ UNCHANGED mathToLatex

(***************************************************************************)
(* The change listener: onDidChangeTextDocument                            *)
(***************************************************************************)

HasNewline(text) == \E k \in 1..Len(text) : text[k] = "\n"

\* the content changes of the edit of invocation rec: the line each range
\* starts on and the inserted text
EditChanges(rec) ==
  (IF cfg.keepOriginalComment /\ Len(Trim(rec.originalLineText)) > 0
   THEN <<[line |-> rec.lineNumber,
           text |-> commentText(cfg.lang, rec.originalLineText)]>>
   ELSE <<>>)
  \o [j \in 1..Len(rec.replacements) |->
        [line |-> rec.lineNumber, text |-> rec.replacements[j].text]]

\* the handler on an event with these changes, document being the text
\* after the change: the changes for which it calls processLineForWrappers
ListenerCalls(document, changes) ==
  LET Calls(change) ==
        /\ HasNewline(change.text)
        /\ change.line < Len(document)
        /\ findWrappersInLine(document[change.line + 1]) # <<>>
  IN IF \/ activeDoc # "D"
        \/ isApplyingLazyLatexEdit
        \/ ~LangOk
        \/ ~cfg.autoReplace
     THEN <<>>
     ELSE SelectSeq(changes, Calls)

FreeSlots(invs) == {s \in Slots : invs[s].pc = "free"}

\* the calls of the handler, each run up to its first await (they are not
\* awaited)
RECURSIVE StartCalls(_, _, _)
StartCalls(invs, document, calls) ==
  IF calls = <<>> THEN invs
  ELSE LET s == CHOOSE s \in FreeSlots(invs) : \A t \in FreeSlots(invs) : s <= t
           lineNumber == Head(calls).line
       IN StartCalls(
            [invs EXCEPT ![s] =
               EnterLineIn(document, "listener", lineNumber,
                           findWrappersInLine(document[lineNumber + 1]))],
            document, Tail(calls))

\* the document changed: the host refuses the edits that were issued for
\* the version before the change
MarkStale(invs) ==
  [s \in Slots |->
     IF invs[s].pc = "edit" /\ invs[s].edit = "issued"
     THEN [invs[s] EXCEPT !.edit = "stale"] ELSE invs[s]]

MarkStaleCommand(c) ==
  IF c.pc = "edit" /\ c.edit = "issued" THEN [c EXCEPT !.edit = "stale"] ELSE c

\* the host answers editor.edit of invocation s: the edit is applied and
\* its change event delivered, or it is refused (resolves false), or it
\* throws; then the finally block
EditReturn(s) ==
  /\ ~Busy
  /\ inv[s].pc = "edit"
  /\ \E outcome \in {"applied", "refused", "threw"} :
       LET document ==
             IF outcome = "applied"
             THEN ApplyEdit(doc, inv[s].lineNumber, inv[s].originalLineText,
                            inv[s].replacements, cfg.keepOriginalComment,
                            cfg.lang)
             ELSE doc
           finished ==
             [inv EXCEPT ![s].pc = IF outcome = "threw" THEN "threw"
                                   ELSE "returned",
                         ![s].status = "disposed",
                         ![s].edit = outcome]
           calls == IF outcome = "applied"
                    THEN ListenerCalls(document, EditChanges(inv[s]))
                    ELSE <<>>
       IN /\ outcome = "applied" =>
               /\ inv[s].edit = "issued"
               /\ ~Overlapping(inv[s].replacements)
               /\ inv[s].lineNumber < Len(doc)
               /\ Len(calls) <= Cardinality(FreeSlots(finished))
          /\ doc' = document
          /\ inv' = IF outcome = "applied"
                    THEN StartCalls(MarkStale(finished), document, calls)
                    ELSE finished
          /\ mathToLatex' = IF outcome = "applied"
                            THEN MarkStaleCommand(mathToLatex)
                            ELSE mathToLatex
          /\ obs' = IF inv[s].caller = "loop" /\ outcome = "applied"
                    THEN [obs EXCEPT !.edited = TRUE]
                    ELSE IF inv[s].caller = "loop" /\ outcome = "threw"
                    THEN [obs EXCEPT !.threw = TRUE]
                    ELSE obs
  /\ isApplyingLazyLatexEdit' = FALSE
  /\ UNCHANGED <<cfg, backend, activeDoc, isProcessingSave, loop, save, didSave,
                 waitUntilPromises, budget>>

(***************************************************************************)
(* processAllWrappersInDocument                                            *)
(***************************************************************************)

maxPasses == 10

\* while (pass < maxPasses)
LoopContinuesOneMore(pass) == pass <= maxPasses

LoopContinues(pass) == pass < maxPasses

\* entry of processAllWrappersInDocument, called by a save handler
processAllWrappersInDocument(owner) ==
  IF activeDoc # "D" \/ ~LangOk
  THEN [IdleLoop EXCEPT !.pc = "return", !.owner = owner]
  ELSE [IdleLoop EXCEPT !.pc = "while", !.owner = owner]

\* the observations of a loop invocation that starts now; loops counts the
\* invocations started since the user's last save
ObsStart ==
  [NoObs EXCEPT !.startRegions = HasRegions(doc),
                !.startMath = HasMathRegions(doc),
                !.loops = obs.loops + 1]

\* the head of the while loop: the next pass starts, or the loop is left
LoopWhile ==
  /\ loop.pc = "while"
  /\ loop' = IF LoopContinues(loop.pass)
             THEN [loop EXCEPT !.pc = "for", !.pass = @ + 1,
                               !.foundWrappers = FALSE,
                               !.lineCount = Len(doc), !.lineNumber = 0]
             ELSE [loop EXCEPT !.pc = "return"]
  /\ UNCHANGED <<cfg, backend, doc, activeDoc, isApplyingLazyLatexEdit, isProcessingSave,
                 inv, save, didSave, waitUntilPromises, obs, budget>>
  /\ UNCHANGED mathToLatex

FreeSlot == CHOOSE s \in Slots : inv[s].pc = "free" /\ \A t \in 1..(s - 1) : inv[t].pc # "free"

\* one iteration of the for loop over the lines, up to the await
LoopFor ==
  /\ loop.pc = "for"
  /\ IF loop.lineNumber >= loop.lineCount
     THEN \* the for loop is over: if (!foundWrappers) break
          /\ loop' = [loop EXCEPT !.pc = IF loop.foundWrappers THEN "while"
                                         ELSE "return"]
          /\ UNCHANGED <<inv, obs>>
     ELSE IF loop.lineNumber >= Len(doc)
     THEN \* document.lineAt throws: caught, next line
          /\ loop' = [loop EXCEPT !.lineNumber = @ + 1]
          /\ UNCHANGED <<inv, obs>>
     ELSE LET lineText == doc[loop.lineNumber + 1]
              wrappers == findWrappersInLine(lineText)
          IN IF wrappers = <<>>
             THEN /\ loop' = [loop EXCEPT !.lineNumber = @ + 1]
                  /\ UNCHANGED <<inv, obs>>
             ELSE /\ \E s \in Slots : inv[s].pc = "free"
                  /\ LET rec == EnterLine("loop", loop.lineNumber, wrappers)
                     IN /\ inv' = [inv EXCEPT ![FreeSlot] = rec]
                        /\ obs' = ObsIssued(
                                    [obs EXCEPT !.processed = @ \cup {lineText}],
                                    rec)
                  /\ loop' = [loop EXCEPT !.pc = "await", !.foundWrappers = TRUE,
                                          !.slot = FreeSlot]
  /\ UNCHANGED <<cfg, backend, doc, activeDoc, isApplyingLazyLatexEdit, isProcessingSave,
                 save, didSave, waitUntilPromises, budget>>
  /\ UNCHANGED mathToLatex

\* processLineForWrappers returned (anyConversions = true; break) or threw
\* (caught; the for loop goes on with the next line)
LoopResume ==
  /\ loop.pc = "await"
  /\ inv[loop.slot].pc \in {"returned", "threw"}
  /\ loop' = IF inv[loop.slot].pc = "returned"
             THEN [loop EXCEPT !.pc = "while", !.anyConversions = TRUE, !.slot = 0]
             ELSE [loop EXCEPT !.pc = "for", !.lineNumber = @ + 1, !.slot = 0]
  /\ inv' = [inv EXCEPT ![loop.slot] = FreeInv]
  /\ UNCHANGED <<cfg, backend, doc, activeDoc, isApplyingLazyLatexEdit, isProcessingSave,
                 save, didSave, waitUntilPromises, obs, budget>>
  /\ UNCHANGED mathToLatex

(***************************************************************************)
(* The save hooks and the host's save                                      *)
(***************************************************************************)

\* a slip: the handler does not hand its promise to the event
waitUntilForgotten(pending, promise) == pending

\* event.waitUntil(promise)
waitUntil(pending, promise) == pending \cup {promise}

\* a slip: the handlers do not look at isProcessingSave
SaveHandlerGuardsReentrant(mode) ==
  /\ activeDoc = "D"
  /\ ~isApplyingLazyLatexEdit
  /\ LangOk
  /\ cfg.convertOnSave = mode

\* the guards common to the two save handlers
SaveHandlerGuards(mode) ==
  /\ activeDoc = "D"
  /\ ~isApplyingLazyLatexEdit
  /\ ~isProcessingSave
  /\ LangOk
  /\ cfg.convertOnSave = mode

\* the user saves the document: the host announces the save
UserSave ==
  /\ ~Busy
  /\ save.phase = "idle"
  /\ budget.actions < MaxUserActions
  /\ save' = [phase |-> "willSave", origin |-> "user"]
  /\ budget' = [budget EXCEPT !.actions = @ + 1]
  /\ obs' = [obs EXCEPT !.loops = 0]
  /\ UNCHANGED <<cfg, backend, doc, activeDoc, isApplyingLazyLatexEdit, isProcessingSave,
                 inv, loop, didSave, waitUntilPromises>>
  /\ UNCHANGED mathToLatex

\* onWillSaveTextDocument handler
OnWillSave ==
  /\ ~Busy
  /\ save.phase = "willSave"
  /\ save' = [save EXCEPT !.phase = "waiting"]
  /\ IF SaveHandlerGuards("convert-save")
     THEN /\ isProcessingSave' = TRUE
          /\ loop' = processAllWrappersInDocument("willSave")
          /\ obs' = ObsStart
          /\ waitUntilPromises' = waitUntil(waitUntilPromises, "conversionPromise")
     ELSE UNCHANGED <<isProcessingSave, loop, obs, waitUntilPromises>>
  /\ UNCHANGED <<cfg, backend, doc, activeDoc, isApplyingLazyLatexEdit, inv, didSave, budget>>
  /\ UNCHANGED mathToLatex

\* the host goes on with the save once every promise it was handed settled
SaveProceed ==
  /\ ~Busy
  /\ save.phase = "waiting"
  /\ waitUntilPromises = {}
  /\ save' = [save EXCEPT !.phase = "write"]
  /\ UNCHANGED <<cfg, backend, doc, activeDoc, isApplyingLazyLatexEdit, isProcessingSave,
                 inv, loop, didSave, waitUntilPromises, obs, budget>>
  /\ UNCHANGED mathToLatex

\* the host writes the document
SaveWrite ==
  /\ ~Busy
  /\ save.phase = "write"
  /\ save' = [save EXCEPT !.phase = "didSave"]
  /\ obs' = IF save.origin = "ext" THEN [obs EXCEPT !.resaves = @ + 1] ELSE obs
  /\ UNCHANGED <<cfg, backend, doc, activeDoc, isApplyingLazyLatexEdit, isProcessingSave,
                 inv, loop, didSave, waitUntilPromises, budget>>
  /\ UNCHANGED mathToLatex

\* onDidSaveTextDocument handler, up to its first await
OnDidSave ==
  /\ ~Busy
  /\ save.phase = "didSave"
  /\ save' = [save EXCEPT !.phase = IF save.origin = "ext" THEN "resolve"
                                    ELSE "idle"]
  /\ IF SaveHandlerGuards("save-convert-save")
     THEN /\ isProcessingSave' = TRUE
          /\ loop' = processAllWrappersInDocument("didSave")
          /\ obs' = ObsStart
          /\ didSave' = "converting"
     ELSE UNCHANGED <<isProcessingSave, loop, obs, didSave>>
  /\ UNCHANGED <<cfg, backend, doc, activeDoc, isApplyingLazyLatexEdit, inv,
                 waitUntilPromises, budget>>
  /\ UNCHANGED mathToLatex

\* processAllWrappersInDocument returns to the handler that awaits it
LoopReturn ==
  /\ loop.pc = "return"
  /\ loop' = IdleLoop
  /\ IF loop.owner = "willSave"
     THEN \* the finally block of conversionPromise; the promise settles
          /\ isProcessingSave' = FALSE
          /\ waitUntilPromises' = waitUntilPromises \ {"conversionPromise"}
          /\ UNCHANGED didSave
     ELSE \* if (hadConversions) await document.save()
          /\ didSave' = IF loop.anyConversions THEN "save" ELSE "finally"
          /\ UNCHANGED <<isProcessingSave, waitUntilPromises>>
  /\ UNCHANGED <<cfg, backend, doc, activeDoc, isApplyingLazyLatexEdit, inv, save, obs,
                 budget>>
  /\ UNCHANGED mathToLatex

\* document.save() of the didSave handler: the host starts that save
ExtSave ==
  /\ ~Busy
  /\ didSave = "save"
  /\ save.phase = "idle"
  /\ save' = [phase |-> "willSave", origin |-> "ext"]
  /\ didSave' = "saving"
  /\ UNCHANGED <<cfg, backend, doc, activeDoc, isApplyingLazyLatexEdit, isProcessingSave,
                 inv, loop, waitUntilPromises, obs, budget>>
  /\ UNCHANGED mathToLatex

\* a slip: the flag is released after the try block, not in a finally block
ExtSaveFailsNoFinally ==
  /\ ~Busy
  /\ didSave = "save"
  /\ didSave' = "none"
  /\ UNCHANGED <<cfg, backend, doc, activeDoc, isApplyingLazyLatexEdit, isProcessingSave,
                 inv, loop, save, waitUntilPromises, obs, budget>>
  /\ UNCHANGED mathToLatex

\* document.save() of the didSave handler fails: it rejects (caught) or
\* resolves false, and the document is not saved
ExtSaveFails ==
  /\ ~Busy
  /\ didSave = "save"
  /\ didSave' = "finally"
  /\ UNCHANGED <<cfg, backend, doc, activeDoc, isApplyingLazyLatexEdit, isProcessingSave,
                 inv, loop, save, waitUntilPromises, obs, budget>>
  /\ UNCHANGED mathToLatex

\* document.save() resolves
ExtSaveResolved ==
  /\ ~Busy
  /\ save.phase = "resolve"
  /\ save' = [save EXCEPT !.phase = "idle"]
  /\ didSave' = IF didSave = "saving" THEN "finally" ELSE didSave
  /\ UNCHANGED <<cfg, backend, doc, activeDoc, isApplyingLazyLatexEdit, isProcessingSave,
                 inv, loop, waitUntilPromises, obs, budget>>
  /\ UNCHANGED mathToLatex

\* the finally block of the didSave handler
DidSaveFinally ==
  /\ didSave = "finally"
  /\ didSave' = "none"
  /\ isProcessingSave' = FALSE
  /\ UNCHANGED <<cfg, backend, doc, activeDoc, isApplyingLazyLatexEdit, inv, loop, save,
                 waitUntilPromises, obs, budget>>
  /\ UNCHANGED mathToLatex

(***************************************************************************)
(* The convert-current-line command and the user                           *)
(***************************************************************************)

\* lazy-latex.convertCurrentLine with the cursor on line lineNumber, up to
\* its await
ConvertCurrentLine(lineNumber) ==
  /\ ~Busy
  /\ budget.commands < MaxCommands
  /\ activeDoc = "D"
  /\ LangOk
  /\ lineNumber < Len(doc)
  /\ \E s \in Slots : inv[s].pc = "free"
  /\ budget' = [budget EXCEPT !.commands = @ + 1]
  /\ LET wrappers == findWrappersInLine(doc[lineNumber + 1])
     IN inv' = IF wrappers = <<>> THEN inv
               ELSE [inv EXCEPT ![FreeSlot] =
                                    EnterLine("command", lineNumber, wrappers)]
  /\ UNCHANGED <<cfg, backend, doc, activeDoc, isApplyingLazyLatexEdit,
                 isProcessingSave, loop, save, didSave, waitUntilPromises, obs>>
  /\ UNCHANGED mathToLatex

\* processLineForWrappers returned to the command, or threw and the command
\* caught it
CommandResume(s) ==
  /\ inv[s].caller = "command"
  /\ inv[s].pc \in {"returned", "threw"}
  /\ inv' = [inv EXCEPT ![s] = FreeInv]
  /\ UNCHANGED <<cfg, backend, doc, activeDoc, isApplyingLazyLatexEdit,
                 isProcessingSave, loop, save, didSave, waitUntilPromises, obs,
                 budget>>
  /\ UNCHANGED mathToLatex

\* the user makes another editor, or this one again, the active editor
UserSwitch ==
  /\ ~Busy
  /\ budget.actions < MaxUserActions
  /\ activeDoc' = IF activeDoc = "D" THEN "O" ELSE "D"
  /\ budget' = [budget EXCEPT !.actions = @ + 1]
  /\ UNCHANGED <<cfg, backend, doc, isApplyingLazyLatexEdit, isProcessingSave, inv, loop,
                 save, didSave, waitUntilPromises, obs>>
  /\ UNCHANGED mathToLatex

(***************************************************************************)
(* Specification                                                           *)
(***************************************************************************)

Init ==
  /\ \E r \in Runs : cfg = r.cfg /\ backend = r.backend /\ doc = r.doc
  /\ activeDoc = "D"
  /\ isApplyingLazyLatexEdit = FALSE
  /\ isProcessingSave = FALSE
  /\ inv = [s \in Slots |-> FreeInv]
  /\ loop = IdleLoop
  /\ save = [phase |-> "idle", origin |-> "user"]
  /\ didSave = "none"
  /\ waitUntilPromises = {}
  /\ obs = NoObs
  /\ budget = [actions |-> 0, commands |-> 0]
  /\ mathToLatex = IdleCommand

Next ==
  \/ UserSave
  \/ UserSwitch
  \/ OnWillSave
  \/ SaveProceed
  \/ SaveWrite
  \/ OnDidSave
  \/ ExtSave
  \/ ExtSaveFails
  \/ ExtSaveResolved
  \/ DidSaveFinally
  \/ LoopWhile
  \/ LoopFor
  \/ LoopResume
  \/ LoopReturn
  \/ \E s \in Slots : BatchReturn(s)
  \/ \E s \in Slots : AnythingReturn(s)
  \/ \E s \in Slots : EditReturn(s)

Spec == Init /\ [][Next]_vars

\* the runs of the convert-current-line command: the user starts the
\* command when no line is being converted, and the backend may fail or
\* answer anything
LineConfigs ==
  {[convertOnSave |-> "none", keepOriginalComment |-> FALSE, lang |-> "latex",
    inlineStyle |-> "dollar", displayStyle |-> "brackets", autoReplace |-> TRUE],
   [convertOnSave |-> "none", keepOriginalComment |-> TRUE, lang |-> "markdown",
    inlineStyle |-> "dollar", displayStyle |-> "brackets", autoReplace |-> TRUE]}

LineInit ==
  /\ cfg \in LineConfigs
  /\ backend = "any"
  /\ doc \in LineDocs
  /\ activeDoc = "D"
  /\ isApplyingLazyLatexEdit = FALSE
  /\ isProcessingSave = FALSE
  /\ inv = [s \in Slots |-> FreeInv]
  /\ loop = IdleLoop
  /\ save = [phase |-> "idle", origin |-> "user"]
  /\ didSave = "none"
  /\ waitUntilPromises = {}
  /\ obs = NoObs
  /\ budget = [actions |-> 0, commands |-> 0]
  /\ mathToLatex = IdleCommand

NoLineInProgress == \A s \in Slots : inv[s].pc = "free"

LineNext ==
  \/ \E lineNumber \in 0..1 : NoLineInProgress /\ ConvertCurrentLine(lineNumber)
  \/ \E s \in Slots : CommandResume(s)
  \/ UserSwitch
  \/ \E s \in Slots : BatchReturn(s)
  \/ \E s \in Slots : AnythingReturn(s)
  \/ \E s \in Slots : EditReturn(s)

LineSpec == LineInit /\ [][LineNext]_vars

\* processLineForWrappers called on a line in which the scanner finds no
\* region, with the empty list of regions
CallWithoutRegions(lineNumber) ==
  /\ ~Busy
  /\ budget.commands < MaxCommands
  /\ lineNumber < Len(doc)
  /\ findWrappersInLine(doc[lineNumber + 1]) = <<>>
  /\ \E s \in Slots : inv[s].pc = "free"
  /\ budget' = [budget EXCEPT !.commands = @ + 1]
  /\ inv' = [inv EXCEPT ![FreeSlot] = EnterLine("direct", lineNumber, <<>>)]
  /\ UNCHANGED <<cfg, backend, doc, activeDoc, isApplyingLazyLatexEdit,
                 isProcessingSave, loop, save, didSave, waitUntilPromises, obs>>
  /\ UNCHANGED mathToLatex

\* that call returned
DirectReturn(s) ==
  /\ inv[s].caller = "direct"
  /\ inv[s].pc \in {"returned", "threw"}
  /\ inv' = [inv EXCEPT ![s] = FreeInv]
  /\ UNCHANGED <<cfg, backend, doc, activeDoc, isApplyingLazyLatexEdit,
                 isProcessingSave, loop, save, didSave, waitUntilPromises, obs,
                 budget>>
  /\ UNCHANGED mathToLatex

(***************************************************************************)
(* The editor events: typing, the Enter trigger, the mathToLatex command   *)
(***************************************************************************)

\* the user presses Enter at the end of line lineNumber: the host inserts
\* the newline and delivers the change event to the listener
UserEnter(lineNumber) ==
  /\ ~Busy
  /\ budget.actions < MaxUserActions
  /\ activeDoc = "D"
  /\ lineNumber < Len(doc)
  /\ LET document == SubSeq(doc, 1, lineNumber + 1) \o << <<>> >>
                      \o SubSeq(doc, lineNumber + 2, Len(doc))
         calls == ListenerCalls(document,
                                <<[line |-> lineNumber, text |-> <<"\n">>]>>)
     IN /\ Len(calls) <= Cardinality(FreeSlots(inv))
        /\ doc' = document
        /\ inv' = StartCalls(MarkStale(inv), document, calls)
  /\ mathToLatex' = MarkStaleCommand(mathToLatex)
  /\ budget' = [budget EXCEPT !.actions = @ + 1]
  /\ UNCHANGED <<cfg, backend, activeDoc, isApplyingLazyLatexEdit, isProcessingSave,
                 loop, save, didSave, waitUntilPromises, obs>>

\* the user types a character at the start of line lineNumber
UserType(lineNumber) ==
  /\ ~Busy
  /\ budget.actions < MaxUserActions
  /\ activeDoc = "D"
  /\ lineNumber < Len(doc)
  /\ LET document == [doc EXCEPT ![lineNumber + 1] = <<"u">> \o @]
         calls == ListenerCalls(document,
                                <<[line |-> lineNumber, text |-> <<"u">>]>>)
     IN /\ Len(calls) <= Cardinality(FreeSlots(inv))
        /\ doc' = document
        /\ inv' = StartCalls(MarkStale(inv), document, calls)
  /\ mathToLatex' = MarkStaleCommand(mathToLatex)
  /\ budget' = [budget EXCEPT !.actions = @ + 1]
  /\ UNCHANGED <<cfg, backend, activeDoc, isApplyingLazyLatexEdit, isProcessingSave,
                 loop, save, didSave, waitUntilPromises, obs>>

\* a processLineForWrappers call of the listener settled (.catch)
ListenerResume(s) ==
  /\ inv[s].caller = "listener"
  /\ inv[s].pc \in {"returned", "threw"}
  /\ inv' = [inv EXCEPT ![s] = FreeInv]
  /\ UNCHANGED <<cfg, backend, doc, activeDoc, isApplyingLazyLatexEdit,
                 isProcessingSave, loop, save, didSave, waitUntilPromises, obs,
                 budget, mathToLatex>>

\* lazy-latex.mathToLatex with the characters [start, end) of line
\* selected, up to its await
MathToLatexCommand(line, start, end) ==
  /\ ~Busy
  /\ budget.commands < MaxCommands
  /\ activeDoc = "D"
  /\ mathToLatex.pc = "idle"
  /\ line < Len(doc)
  /\ start < end
  /\ end <= Len(doc[line + 1])
  /\ mathToLatex' = [IdleCommand EXCEPT !.pc = "llm", !.line = line,
                                        !.start = start, !.end = end]
  /\ budget' = [budget EXCEPT !.commands = @ + 1]
  /\ UNCHANGED <<cfg, backend, doc, activeDoc, isApplyingLazyLatexEdit,
                 isProcessingSave, inv, loop, save, didSave, waitUntilPromises,
                 obs>>

\* the outcomes of generateLatexFromText: callChatCompletion throws or
\* returns content.trim()
LatexFromTextOutcomes(b) ==
  (IF BackendFails(b) THEN {[ok |-> FALSE, text |-> <<>>]} ELSE {})
  \cup {[ok |-> TRUE, text |-> Trim(t)] : t \in BackendTexts(b) \cup {TextTwoLines}}

\* generateLatexFromText settled: the command returns, or it issues the
\* edit that replaces the selection
MathToLatexReturn ==
  /\ ~Busy
  /\ mathToLatex.pc = "llm"
  /\ \E out \in LatexFromTextOutcomes(backend) :
       mathToLatex' = IF out.ok /\ out.text # <<>>
                      THEN [mathToLatex EXCEPT !.pc = "edit", !.latex = out.text,
                                               !.edit = "issued"]
                      ELSE IdleCommand
  /\ UNCHANGED <<cfg, backend, doc, activeDoc, isApplyingLazyLatexEdit,
                 isProcessingSave, inv, loop, save, didSave, waitUntilPromises,
                 obs, budget>>

\* the document after the selection of the command was replaced
ReplaceSelection(document, c) ==
  SubSeq(document, 1, c.line)
  \o SplitLines(ReplaceRange(document[c.line + 1],
                             [start |-> c.start, end |-> c.end, text |-> c.latex]))
  \o SubSeq(document, c.line + 2, Len(document))

\* the host answers editor.edit of the command: the selection is replaced
\* and the change event delivered, or the edit is refused, or it throws
MathToLatexEdit ==
  /\ ~Busy
  /\ mathToLatex.pc = "edit"
  /\ \E outcome \in {"applied", "refused", "threw"} :
       LET document == IF outcome = "applied"
                       THEN ReplaceSelection(doc, mathToLatex) ELSE doc
           calls == IF outcome = "applied"
                    THEN ListenerCalls(document,
                                       <<[line |-> mathToLatex.line,
                                          text |-> mathToLatex.latex]>>)
                    ELSE <<>>
       IN /\ outcome = "applied" =>
               /\ mathToLatex.edit = "issued"
               /\ mathToLatex.line < Len(doc)
               /\ Len(calls) <= Cardinality(FreeSlots(inv))
          /\ doc' = document
          /\ inv' = IF outcome = "applied"
                    THEN StartCalls(MarkStale(inv), document, calls)
                    ELSE inv
          /\ mathToLatex' = [IdleCommand EXCEPT !.edit = outcome]
  /\ UNCHANGED <<cfg, backend, activeDoc, isApplyingLazyLatexEdit, isProcessingSave,
                 loop, save, didSave, waitUntilPromises, obs, budget>>

\* the settings of the runs of the editor events
EditorConfigs ==
  {[convertOnSave |-> "none", keepOriginalComment |-> FALSE, lang |-> "latex",
    inlineStyle |-> "dollar", displayStyle |-> "brackets", autoReplace |-> a] :
      a \in BOOLEAN}

EditorInit ==
  /\ cfg \in EditorConfigs
  /\ backend = "flaky"
  /\ doc \in EditorDocs
  /\ activeDoc = "D"
  /\ isApplyingLazyLatexEdit = FALSE
  /\ isProcessingSave = FALSE
  /\ inv = [s \in Slots |-> FreeInv]
  /\ loop = IdleLoop
  /\ save = [phase |-> "idle", origin |-> "user"]
  /\ didSave = "none"
  /\ waitUntilPromises = {}
  /\ obs = NoObs
  /\ budget = [actions |-> 0, commands |-> 0]
  /\ mathToLatex = IdleCommand

EditorNext ==
  \/ UserEnter(0)
  \/ UserType(0)
  \/ UserSwitch
  \/ ConvertCurrentLine(0)
  \/ \E s \in Slots : CommandResume(s)
  \/ \E s \in Slots : ListenerResume(s)
  \/ \E start \in {0, 6} : MathToLatexCommand(0, start, start + 1)
  \/ MathToLatexReturn
  \/ MathToLatexEdit
  \/ \E s \in Slots : BatchReturn(s)
  \/ \E s \in Slots : AnythingReturn(s)
  \/ \E s \in Slots : EditReturn(s)

EditorSpec == EditorInit /\ [][EditorNext]_vars

(***************************************************************************)
(* The Line Edit Applier on its own                                        *)
(***************************************************************************)

\* the line and the Replacement Operations the Applier is handed: ranges
\* within the line, empty ranges (insertions) included, no two overlapping
ApplierLine == <<"a", "b", "c">>
ApplierTexts == {<<>>, <<"p">>, <<"q", "r">>}
ApplierOps ==
  {[start |-> b, end |-> e, text |-> t] :
     b \in 0..Len(ApplierLine), e \in 0..Len(ApplierLine), t \in ApplierTexts}
ApplierInputs ==
  {ops \in UNION {[1..n -> {o \in ApplierOps : o.start <= o.end}] : n \in 0..MaxOps} :
     ~Overlapping(ops)}

\* the runs of the Applier: an invocation that has just issued its edit
ApplierInit ==
  /\ cfg \in {c \in LineConfigs : ~c.keepOriginalComment}
  /\ backend = "good"
  /\ doc = <<ApplierLine>>
  /\ activeDoc = "D"
  /\ isApplyingLazyLatexEdit = TRUE
  /\ isProcessingSave = FALSE
  /\ \E ops \in ApplierInputs :
       inv = [s \in Slots |->
                IF s = 1
                THEN [FreeInv EXCEPT !.pc = "edit", !.caller = "command",
                                     !.status = "live", !.edit = "issued",
                                     !.originalLineText = ApplierLine,
                                     !.replacements = ops]
                ELSE FreeInv]
  /\ loop = IdleLoop
  /\ save = [phase |-> "idle", origin |-> "user"]
  /\ didSave = "none"
  /\ waitUntilPromises = {}
  /\ obs = NoObs
  /\ budget = [actions |-> 0, commands |-> 0]
  /\ mathToLatex = IdleCommand

ApplierNext ==
  \/ \E s \in Slots : EditReturn(s)
  \/ \E s \in Slots : CommandResume(s)

ApplierSpec == ApplierInit /\ [][ApplierNext]_vars

\* the runs of the Replacement Builder: one line, converted by the command
BuildInit ==
  /\ cfg \in LineConfigs
  /\ backend = "any"
  /\ doc \in BuildDocs
  /\ activeDoc = "D"
  /\ isApplyingLazyLatexEdit = FALSE
  /\ isProcessingSave = FALSE
  /\ inv = [s \in Slots |-> FreeInv]
  /\ loop = IdleLoop
  /\ save = [phase |-> "idle", origin |-> "user"]
  /\ didSave = "none"
  /\ waitUntilPromises = {}
  /\ obs = NoObs
  /\ budget = [actions |-> 0, commands |-> 0]
  /\ mathToLatex = IdleCommand

BuildNext ==
  \/ NoLineInProgress /\ ConvertCurrentLine(0)
  \/ NoLineInProgress /\ CallWithoutRegions(0)
  \/ \E s \in Slots : CommandResume(s)
  \/ \E s \in Slots : DirectReturn(s)
  \/ \E s \in Slots : BatchReturn(s)
  \/ \E s \in Slots : AnythingReturn(s)
  \/ \E s \in Slots : EditReturn(s)

BuildSpec == BuildInit /\ [][BuildNext]_vars

\* a document of n lines, every one holding a region: a free-text region on
\* the second line, a display region on the third, inline regions elsewhere
ManyLines(n) ==
  [i \in 1..n |-> IF i = 2 THEN M4 \o <<"i">> \o M4
                  ELSE IF i = 3 THEN M3 \o <<"b">> \o M3
                  ELSE M2 \o <<"a">> \o M2]

\* as many lines with regions as there are passes, and one more
ManyLinesDocs == {ManyLines(maxPasses), ManyLines(maxPasses + 1)}

ManyLinesConfigs ==
  {c \in Configs : /\ c.convertOnSave # "none"
                   /\ c.lang = "latex"
                   /\ ~c.keepOriginalComment}

\* the save-driven runs on the long documents: a backend that answers every
\* request with text free of markers, a host that applies every edit, and a
\* user who does nothing but save
ManyLinesInit ==
  /\ cfg \in ManyLinesConfigs
  /\ backend = "good"
  /\ doc \in ManyLinesDocs
  /\ activeDoc = "D"
  /\ isApplyingLazyLatexEdit = FALSE
  /\ isProcessingSave = FALSE
  /\ inv = [s \in Slots |-> FreeInv]
  /\ loop = IdleLoop
  /\ save = [phase |-> "idle", origin |-> "user"]
  /\ didSave = "none"
  /\ waitUntilPromises = {}
  /\ obs = NoObs
  /\ budget = [actions |-> 0, commands |-> 0]
  /\ mathToLatex = IdleCommand

ManyLinesNext ==
  \/ UserSave
  \/ OnWillSave
  \/ SaveProceed
  \/ SaveWrite
  \/ OnDidSave
  \/ ExtSave
  \/ ExtSaveFails
  \/ ExtSaveResolved
  \/ DidSaveFinally
  \/ LoopWhile
  \/ LoopFor
  \/ LoopResume
  \/ LoopReturn
  \/ \E s \in Slots : BatchReturn(s)
  \/ \E s \in Slots : AnythingReturn(s)
  \/ \E s \in Slots : EditReturn(s) /\ inv'[s].edit = "applied"

ManyLinesSpec == ManyLinesInit /\ [][ManyLinesNext]_vars

(***************************************************************************)
(* Properties                                                              *)
(***************************************************************************)

\* the invocation has passed its backend requests
LineDone(rec) == rec.status # "none" /\ rec.pc \in {"edit", "returned", "threw"}

\* how many times request q (0: the batch, k: the k-th free-text region)
\* was issued by the invocation
TimesRequested(rec, q) ==
  Cardinality({n \in 1..Len(rec.requests) : rec.requests[n] = q})

C2_ReturnsTrueIffEdited ==
  loop.pc = "return" => (loop.anyConversions <=> obs.edited)

\* C3: in post-save mode the handler saves the document again exactly once
\* if its conversion pass changed the document and not at all if it did not.
C3_ResaveIffChanged ==
  didSave = "finally" => obs.resaves = (IF obs.edited THEN 1 ELSE 0)

\* C4: when the backend call of a line failed and the line stayed
\* unconverted, every line that holds regions when the invocation returns
\* was processed during the invocation.
C4_SiblingLinesProcessed ==
  (/\ loop.pc = "return"
   /\ \E key \in obs.failed : \E i \in 1..Len(doc) : doc[i] = key[2])
  => \A i \in 1..Len(doc) :
       findWrappersInLine(doc[i]) # <<>> => doc[i] \in obs.processed

\* C5: within one processAllWrappersInDocument invocation no backend request
\* is issued again for a math batch or a free-text region whose request
\* failed.
C5_NoRetryOfFailedRequest == obs.retried = {}

\* C6: an edit of processLineForWrappers is applied only while the document
\* being processed is the active document.
C6_EditOnlyWhileActive ==
  [][\A s \in Slots :
       (inv[s].pc = "edit" /\ inv'[s].edit = "applied") => activeDoc = "D"]_vars

\* C7: in pre-save mode, as long as the processAllWrappersInDocument
\* invocation started by the willSave handler has not finished, the host
\* holds the save back.
C7_SaveWaitsForConversion ==
  loop.owner = "willSave" => save.phase = "waiting"

C7_Witness ==
  /\ save.phase = "write"
  /\ save.origin = "user"
  /\ cfg.convertOnSave = "convert-save"
  /\ obs.failed # {}
  /\ obs.edited

\* C8: a line with math regions gets exactly one batch request; when that
\* request failed, every Replacement Operation of the line belongs to a
\* free-text region, and every free-text region with a non-empty
\* instruction is requested once and, when its result is not blank,
\* replaced by the trimmed result.
C8_BatchFailureSparesFreeText ==
  \A s \in Slots :
    LET rec == inv[s]
        mw == mathWrappersOf(rec.wrappers)
        aw == anythingWrappersOf(rec.wrappers)
    IN rec.status # "none" =>
         /\ TimesRequested(rec, 0) = (IF mw # <<>> THEN 1 ELSE 0)
         /\ rec.batch.st = "failed" =>
              /\ \A j \in 1..Len(rec.replacements) :
                   \E k \in 1..Len(aw) :
                     \/ rec.replacements[j].start = aw[k].start
                     \/ rec.replacements[j].start = aw[k].end
              /\ LineDone(rec) =>
                   \A k \in 1..Len(aw) :
                     Trim(aw[k].inner) # <<>> =>
                       /\ TimesRequested(rec, k) = 1
                       /\ (/\ rec.generated[k].st = "ok"
                           /\ Trim(rec.generated[k].text) # <<>>)
                          => \E j \in 1..Len(rec.replacements) :
                               rec.replacements[j] =
                                 [start |-> aw[k].start, end |-> aw[k].end,
                                  text |-> Trim(rec.generated[k].text)]

C8_Witness ==
  \E s \in Slots :
    /\ inv[s].pc = "returned"
    /\ inv[s].batch.st = "failed"
    /\ inv[s].edit = "applied"
    /\ Len(mathWrappersOf(inv[s].wrappers)) = 2
    /\ \E k \in 1..Len(inv[s].generated) : inv[s].generated[k].st = "ok"

\* C9: when the request of a free-text region failed, that region gets no
\* Replacement Operation, every later free-text region with a non-empty
\* instruction is still requested, the operations of the math regions and
\* of the other free-text regions are kept, and the edit is issued with
\* them.
C9_FreeTextFailureIsolated ==
  \A s \in Slots :
    LET rec == inv[s]
        mw == mathWrappersOf(rec.wrappers)
        aw == anythingWrappersOf(rec.wrappers)
        Replaced(w) == \E j \in 1..Len(rec.replacements) :
                         /\ rec.replacements[j].start = w.start
                         /\ rec.replacements[j].end = w.end
    IN LineDone(rec) =>
         \A k \in 1..Len(aw) :
           rec.generated[k].st = "failed" =>
             /\ ~Replaced(aw[k])
             /\ \A j \in 1..Len(rec.replacements) :
                  rec.replacements[j].start # aw[k].end
             /\ \A k2 \in (k + 1)..Len(aw) :
                  Trim(aw[k2].inner) # <<>> =>
                    rec.generated[k2].st \in {"ok", "failed"}
             /\ \A k2 \in 1..Len(aw) :
                  (/\ rec.generated[k2].st = "ok"
                   /\ Trim(rec.generated[k2].text) # <<>>) => Replaced(aw[k2])
             /\ \A i \in 1..Len(mw) :
                  (/\ rec.batch.st = "ok"
                   /\ i <= Len(rec.batch.list)
                   /\ Trim(rec.batch.list[i]) # <<>>) => Replaced(mw[i])
             /\ rec.replacements # <<>> => rec.edit # "none"

C9_Witness ==
  \E s \in Slots :
    /\ inv[s].pc = "returned"
    /\ inv[s].edit = "applied"
    /\ inv[s].batch.st = "ok"
    /\ Len(inv[s].generated) = 2
    /\ inv[s].generated[1].st = "failed"
    /\ inv[s].generated[2].st = "ok"
    /\ Len(inv[s].replacements) >= 3

\* C10: the replacement over the range of the i-th math region of the line
\* is built from the i-th element of the batch result and from no other
\* element, and there is none when that element is absent or blank.
C10_BatchOrdering ==
  \A s \in Slots :
    LET rec == inv[s]
        mw == mathWrappersOf(rec.wrappers)
        letters == {"x", "y"}
    IN rec.batch.st = "ok" =>
         \A i \in 1..Len(mw) :
           LET raw == IF i <= Len(rec.batch.list) THEN rec.batch.list[i] ELSE <<>>
               ops == {j \in 1..Len(rec.replacements) :
                         /\ rec.replacements[j].start = mw[i].start
                         /\ rec.replacements[j].end = mw[i].end}
           IN IF Trim(raw) = <<>> THEN ops = {}
              ELSE /\ Cardinality(ops) = 1
                   /\ \A j \in ops :
                        Chars(rec.replacements[j].text) \cap letters
                          = Chars(raw) \cap letters

C10_Witness ==
  \E s \in Slots :
    /\ inv[s].pc = "returned"
    /\ inv[s].edit = "applied"
    /\ inv[s].batch = [st |-> "ok", list |-> <<TextY, TextX>>]
    /\ Len(anythingWrappersOf(inv[s].wrappers)) = 2
    /\ inv[s].wrappers[2].type = "inline"
    /\ inv[s].wrappers[3].type = "anything"

\* the raw result the batch returned for the idx-th math region
RawResult(rec, idx) ==
  IF idx <= Len(rec.batch.list) THEN rec.batch.list[idx] ELSE <<>>

\* the idx-th math region of the line was converted
Converted(rec, idx) == rec.batch.st = "ok" /\ Trim(RawResult(rec, idx)) # <<>>

\* 0-based offset of the first character after the region that is not
\* whitespace (the length of the line when there is none)
AfterSpaces(line, w) == SkipSpaces(line, w.end)

\* whitespace and then a single semicolon follow the region
SingleSemicolonAfter(line, w) ==
  LET i == AfterSpaces(line, w)
  IN /\ i > w.end
     /\ i < Len(line)
     /\ line[i + 1] = ";"
     /\ (i + 1 = Len(line) \/ line[i + 2] # ";")

\* a punctuation character is the first non-whitespace after the region
PunctuationAfter(line, w) ==
  LET i == AfterSpaces(line, w)
  IN i < Len(line) /\ line[i + 1] \in {".", ",", ";", ":", "!", "?"}

\* the operations that replace the range of region w
OpsOver(rec, w) ==
  {j \in 1..Len(rec.replacements) :
     rec.replacements[j].start = w.start /\ rec.replacements[j].end = w.end}

\* some operation of the line touches the character at 0-based offset i
Touched(rec, i) ==
  \E j \in 1..Len(rec.replacements) :
    rec.replacements[j].start <= i /\ i < rec.replacements[j].end

\* C11: for every converted inline or display region followed by whitespace
\* and then a single semicolon, one operation deletes exactly the whitespace
\* between the region's end and the semicolon, and no operation touches the
\* semicolon, which so stays in the line outside the generated block.
C11_SemicolonKept ==
  \A s \in Slots :
    LET rec == inv[s]
        line == rec.originalLineText
        mw == mathWrappersOf(rec.wrappers)
    IN LineDone(rec) =>
         \A idx \in 1..Len(mw) :
           (Converted(rec, idx) /\ SingleSemicolonAfter(line, mw[idx])) =>
             /\ \E j \in 1..Len(rec.replacements) :
                  rec.replacements[j] =
                    [start |-> mw[idx].end, end |-> AfterSpaces(line, mw[idx]),
                     text |-> <<>>]
             /\ ~Touched(rec, AfterSpaces(line, mw[idx]))

\* C12: when the first non-whitespace character after a converted display
\* region is one of . , ; : ! ? the text of the region's replacement holds
\* the trimmed result, a space and that character between the delimiters,
\* and another operation deletes that character and the whitespace after
\* it; the replacement of a converted inline region is the trimmed result
\* between the inline delimiters and no deletion touches the punctuation
\* character after it.
C12_PunctuationDisplayOnly ==
  \A s \in Slots :
    LET rec == inv[s]
        line == rec.originalLineText
        mw == mathWrappersOf(rec.wrappers)
    IN LineDone(rec) =>
         \A idx \in 1..Len(mw) :
           LET w == mw[idx]
               latex == Trim(RawResult(rec, idx))
               i == AfterSpaces(line, w)
           IN Converted(rec, idx) =>
                /\ Cardinality(OpsOver(rec, w)) = 1
                /\ \A j \in OpsOver(rec, w) :
                     LET text == rec.replacements[j].text
                     IN IF w.type = "inline"
                        THEN /\ text = outputDelims.inline.open \o latex
                                       \o outputDelims.inline.close
                             /\ PunctuationAfter(line, w) =>
                                  \A d \in 1..Len(rec.replacements) :
                                    (/\ rec.replacements[d].text = <<>>
                                     /\ rec.replacements[d].start <= i)
                                    => rec.replacements[d].end <= i
                        ELSE LET inside ==
                                   IF PunctuationAfter(line, w)
                                   THEN latex \o <<" ", line[i + 1]>>
                                   ELSE latex
                                 block ==
                                   outputDelims.display.open \o <<"\n">>
                                   \o inside \o <<"\n">>
                                   \o outputDelims.display.close \o <<"\n">>
                             IN /\ text \in {block, <<"\n">> \o block}
                                /\ PunctuationAfter(line, w) =>
                                     \E d \in 1..Len(rec.replacements) :
                                       /\ rec.replacements[d].text = <<>>
                                       /\ rec.replacements[d].start = i
                                       /\ rec.replacements[d].end > i
                                       /\ rec.replacements[d].end
                                            = SkipSpaces(line, i + 1)

\* an inline region followed by a comma and a display region followed by a
\* full stop were converted and the edit was applied
C12_Witness ==
  \E s \in Slots :
    /\ inv[s].originalLineText = LineInlineDisplay
    /\ inv[s].batch = [st |-> "ok", list |-> <<TextX, TextY>>]
    /\ inv[s].edit = "applied"
    /\ Len(inv[s].replacements) = 3

\* C13: the replacement text of a converted display region is the block
\* open delimiter, newline, generated text, newline, close delimiter,
\* newline; exactly one newline precedes the block when a non-whitespace
\* character precedes the region on the original line, and nothing precedes
\* it otherwise.
C13_DisplayPlacement ==
  \A s \in Slots :
    LET rec == inv[s]
        line == rec.originalLineText
        mw == mathWrappersOf(rec.wrappers)
        open == outputDelims.display.open
        close == outputDelims.display.close
    IN LineDone(rec) =>
         \A idx \in 1..Len(mw) :
           (Converted(rec, idx) /\ mw[idx].type = "display") =>
             \A j \in OpsOver(rec, mw[idx]) :
               LET text == rec.replacements[j].text
                   textBefore == \E k \in 1..mw[idx].start : ~IsSpace(line[k])
                   block == IF textBefore THEN Tail(text) ELSE text
                   n == Len(block)
                   generated == SubSeq(block, Len(open) + 2, n - Len(close) - 2)
               IN /\ textBefore => Head(text) = "\n"
                  /\ n >= Len(open) + Len(close) + 4
                  /\ SubSeq(block, 1, Len(open) + 1) = open \o <<"\n">>
                  /\ SubSeq(block, n - Len(close) - 1, n)
                       = <<"\n">> \o close \o <<"\n">>
                  /\ \A k \in 1..Len(generated) : generated[k] # "\n"
                  /\ SubSeq(generated, 1, Len(Trim(RawResult(rec, idx))))
                       = Trim(RawResult(rec, idx))

\* a display region after whitespace only and one after text, both converted
C13_Witness ==
  \E s \in Slots :
    /\ inv[s].originalLineText = LineTwoDisplays
    /\ inv[s].batch = [st |-> "ok", list |-> <<TextX, TextY>>]
    /\ inv[s].edit = "applied"
    /\ \E j, k \in 1..Len(inv[s].replacements) :
         /\ SubSeq(inv[s].replacements[j].text, 1, 2) = <<"\n", "\\">>
         /\ SubSeq(inv[s].replacements[k].text, 1, 2) = <<"\\", "[">>

\* C14: a call of processLineForWrappers with an empty list of regions
\* returns at once: it issues no backend request, builds no Replacement
\* Operation, issues no edit, sets no status message and leaves the
\* document and both flags as they are.
C14_NoRegionsNoOp ==
  [][\A s \in Slots :
       (inv[s].pc = "free" /\ inv'[s].pc # "free" /\ inv'[s].wrappers = <<>>)
       => /\ inv'[s].pc = "returned"
          /\ inv'[s].requests = <<>>
          /\ inv'[s].replacements = <<>>
          /\ inv'[s].edit = "none"
          /\ inv'[s].status = "none"
          /\ doc' = doc
          /\ isApplyingLazyLatexEdit' = isApplyingLazyLatexEdit
          /\ isProcessingSave' = isProcessingSave]_vars

C14_Witness ==
  \E s \in Slots :
    /\ inv[s].caller = "direct"
    /\ inv[s].pc = "returned"
    /\ inv[s].wrappers = <<>>
    /\ activeDoc = "D"
    /\ findWrappersInLine(doc[inv[s].lineNumber + 1]) = <<>>
    /\ \E k \in 1..Len(doc[inv[s].lineNumber + 1]) :
         doc[inv[s].lineNumber + 1][k] = ";"

\* C15: the Replacement Operations accumulated for a line never overlap
\* pairwise as ranges of the original line.
C15_OperationsDisjoint ==
  \A s \in Slots :
    \A i, j \in 1..Len(inv[s].replacements) :
      i # j =>
        \/ inv[s].replacements[i].end <= inv[s].replacements[j].start
        \/ inv[s].replacements[j].end <= inv[s].replacements[i].start

\* a processLineForWrappers invocation is in progress: it started and its
\* edit has not completed
InProgress(rec) == rec.pc \in {"batch", "anything", "edit"}

\* C16: in every reachable state at most one processLineForWrappers
\* invocation is in progress.
C16_OneLineAtATime ==
  Cardinality({s \in Slots : InProgress(inv[s])}) <= 1

\* the step applies the line edit of invocation s
LineEditApplied(s) == inv[s].pc = "edit" /\ inv'[s].edit = "applied"

\* the step applies the selection replacement of the mathToLatex command
SelectionEditApplied == mathToLatex.pc = "edit" /\ mathToLatex'.edit = "applied"

\* C17: whenever an edit issued by the extension is applied and its change
\* event delivered, isApplyingLazyLatexEdit is true and the listener starts
\* no processLineForWrappers invocation.
C17_OwnEditSuppressed ==
  [][((\E s \in Slots : LineEditApplied(s)) \/ SelectionEditApplied)
     => /\ isApplyingLazyLatexEdit
        /\ \A t \in Slots : inv[t].pc = "free" => inv'[t].pc = "free"]_vars

\* C18: whenever processLineForWrappers applies its edit at lineNumber, the
\* text of that line in the document equals originalLineText.
C18_SnapshotValid ==
  [][\A s \in Slots :
       LineEditApplied(s)
       => /\ inv[s].lineNumber < Len(doc)
          /\ doc[inv[s].lineNumber + 1] = inv[s].originalLineText]_vars

\* C19: whenever no line edit is being applied isApplyingLazyLatexEdit is
\* false, and whenever no save handler's conversion is running
\* isProcessingSave is false.
C19_FlagsReleased ==
  /\ (\A s \in Slots : inv[s].pc # "edit") => ~isApplyingLazyLatexEdit
  /\ (loop.pc = "idle" /\ didSave = "none") => ~isProcessingSave

\* the post-save handler has finished after an edit threw, another was
\* applied and document.save failed
C19_Witness ==
  /\ cfg.convertOnSave = "save-convert-save"
  /\ didSave = "none"
  /\ loop.pc = "idle"
  /\ obs.loops = 1
  /\ obs.threw
  /\ obs.edited
  /\ obs.resaves = 0
  /\ ~isProcessingSave
  /\ ~isApplyingLazyLatexEdit

\* the step starts a processAllWrappersInDocument invocation
StartsLoop == loop' # loop /\ loop'.pass = 0 /\ loop'.pc \in {"while", "return"}

\* C20: a processAllWrappersInDocument invocation starts only while no save
\* handler's conversion is running, and at most one starts after one save
\* of the user.
C20_SaveHooksNeverReenter ==
  [][/\ StartsLoop => /\ ~isProcessingSave
                      /\ loop.pc = "idle"
                      /\ didSave = "none"
     /\ obs'.loops <= 1]_vars

\* the didSave event of the handler's own save found the conversion running
C20_Witness ==
  /\ cfg.convertOnSave = "save-convert-save"
  /\ didSave = "saving"
  /\ save = [phase |-> "resolve", origin |-> "ext"]
  /\ isProcessingSave
  /\ obs.loops = 1
  /\ obs.edited

\* the texts of the operations that start at 0-based offset p, in the order
\* of the list
RECURSIVE InsertedAt(_, _)
InsertedAt(ops, p) ==
  IF ops = <<>> THEN <<>>
  ELSE (IF Head(ops).start = p THEN Head(ops).text ELSE <<>>)
       \o InsertedAt(Tail(ops), p)

\* all operations spliced into the original line at once, from offset p on:
\* what the operations that start at p insert, then the rest of the line
\* after the range replaced at p, or the character at p when none is
RECURSIVE SpliceFrom(_, _, _)
SpliceFrom(line, ops, p) ==
  LET ends == {ops[j].end : j \in {j \in 1..Len(ops) : ops[j].start = p}}
      next == IF ends = {} THEN p
              ELSE CHOOSE e \in ends : \A f \in ends : f <= e
  IN InsertedAt(ops, p)
     \o (IF next > p THEN SpliceFrom(line, ops, next)
         ELSE IF p < Len(line) THEN <<line[p + 1]>> \o SpliceFrom(line, ops, p + 1)
         ELSE <<>>)

Splice(line, ops) == SpliceFrom(line, ops, 0)

\* the line edit of invocation s is applied and the lines that replace the
\* line are those of the simultaneous splice
SplicedBy(s) ==
  doc' = SubSeq(doc, 1, inv[s].lineNumber)
         \o SplitLines(
              (IF cfg.keepOriginalComment /\ Len(Trim(inv[s].originalLineText)) > 0
               THEN commentText(cfg.lang, inv[s].originalLineText) ELSE <<>>)
              \o Splice(doc[inv[s].lineNumber + 1], inv[s].replacements))
         \o SubSeq(doc, inv[s].lineNumber + 2, Len(doc))

BlankMath(rec, idx) == rec.batch.st = "ok" /\ Trim(RawResult(rec, idx)) = <<>>

\* the text generated for the k-th free-text region is blank after trimming
BlankAnything(rec, k) ==
  rec.generated[k].st = "ok" /\ Trim(rec.generated[k].text) = <<>>

\* no operation of the line covers a character of region w, and no deletion
\* starts where the despacing or the punctuation deletion of w would start
Untouched(rec, line, w) ==
  /\ \A i \in w.start..(w.end - 1) : ~Touched(rec, i)
  /\ \A j \in 1..Len(rec.replacements) :
       rec.replacements[j].text = <<>> =>
         rec.replacements[j].start \notin {w.end, AfterSpaces(line, w)}

\* C22: a region whose generated text is absent or blank after trimming is
\* left untouched: no operation of the line covers it and no despacing or
\* punctuation deletion follows from it, while every other region of the
\* line whose text was generated is replaced over its range.
C22_BlankLeftUntouched ==
  \A s \in Slots :
    LET rec == inv[s]
        line == rec.originalLineText
        mw == mathWrappersOf(rec.wrappers)
        aw == anythingWrappersOf(rec.wrappers)
    IN LineDone(rec) =>
         /\ \A idx \in 1..Len(mw) :
              /\ BlankMath(rec, idx) => Untouched(rec, line, mw[idx])
              /\ Converted(rec, idx) => OpsOver(rec, mw[idx]) # {}
         /\ \A k \in 1..Len(rec.generated) :
              /\ BlankAnything(rec, k) => Untouched(rec, line, aw[k])
              /\ (rec.generated[k].st = "ok" /\ ~BlankAnything(rec, k))
                   => OpsOver(rec, aw[k]) # {}

\* C23: with a backend that answers every request with non-blank text free
\* of markers, every edit applied and no user edits, no line of the document
\* holds a region when processAllWrappersInDocument returns after its
\* passes, however many lines held regions at the start.
C23_AllConverted ==
  (loop.pc = "return" /\ loop.pass > 0) => ~HasRegions(doc)

\* C24: when an invocation of processLineForWrappers has returned or
\* thrown, the status-bar message it created is disposed, on every exit
\* path.
C24_StatusDisposed ==
  \A s \in Slots :
    inv[s].pc \in {"returned", "threw"} => inv[s].status # "live"

====
